---------------------------- MODULE Spec2Model ----------------------------
(***************************************************************************)
(* A model of the service worker src/sw.js: the install, activate, fetch   *)
(* and message listeners over the host's cache storage.                    *)
(*                                                                         *)
(* Host operations (caches.open/keys/delete/match, cache.add/put, fetch)   *)
(* return promises.  Each promise is one step of the model: the step at    *)
(* which the host performs the operation, settles the promise and the      *)
(* worker runs the reaction the code attached to it (.then/.catch).  A     *)
(* listener's synchronous body is one step as well.  Between the steps of  *)
(* one listener the steps of every other listener interleave freely.       *)
(* The reactions to cache-storage promises run in the order in which the   *)
(* operations took effect, which is why an operation and its reaction are  *)
(* one step: the reaction of a later operation cannot run in between.      *)
(* Every host operation the code guards against, or that the design notes  *)
(* as fallible, may reject: caches.open, cache.add, cache.put,             *)
(* caches.delete and fetch.  caches.keys and caches.match always fulfil.   *)
(*                                                                         *)
(* A Cache object (what caches.open resolves to) refers to one cache, not  *)
(* to a name: once caches.delete removed the cache from the name map, a    *)
(* write through an older handle no longer reaches cache storage.  Caches  *)
(* therefore carry an id, and handles are ids.                             *)
(***************************************************************************)
EXTENDS Naturals, Sequences, FiniteSets, TLC

\* ------------------------------------------------------------------ bounds
\* Fetch events dispatched to the worker in one run.
MaxReq == 2
\* Message events dispatched to the worker in one run.
MaxMsg == 1

\* ----------------------------------------------------- program constants
CACHE_NAME == "pupu-cosmos-v1"

CACHE_FILES ==
    << "./", "./index.html", "./css/googleapis.css", "./css/awesome.css",
       "./js/tailwindcss.js", "./js/confrtti_browser.js", "./img/shu.png",
       "./img/friends.jpg", "./webfonts/fa-solid-900.woff2",
       "./webfonts/fa-solid-900.ttf" >>

\* ------------------------------------------------------------ the patterns
\* The /i flag: both sides are compared in lower case.
LowerChar(c) ==
    CASE c = "A" -> "a" [] c = "B" -> "b" [] c = "C" -> "c" [] c = "D" -> "d"
      [] c = "E" -> "e" [] c = "F" -> "f" [] c = "G" -> "g" [] c = "H" -> "h"
      [] c = "I" -> "i" [] c = "J" -> "j" [] c = "K" -> "k" [] c = "L" -> "l"
      [] c = "M" -> "m" [] c = "N" -> "n" [] c = "O" -> "o" [] c = "P" -> "p"
      [] c = "Q" -> "q" [] c = "R" -> "r" [] c = "S" -> "s" [] c = "T" -> "t"
      [] c = "U" -> "u" [] c = "V" -> "v" [] c = "W" -> "w" [] c = "X" -> "x"
      [] c = "Y" -> "y" [] c = "Z" -> "z" [] OTHER -> c

RECURSIVE ToLower(_)
ToLower(s) ==
    IF Len(s) = 0 THEN ""
    ELSE LowerChar(SubSeq(s, 1, 1)) \o ToLower(SubSeq(s, 2, Len(s)))

\* String.prototype.endsWith: case-sensitive.
EndsWith(s, suffix) ==
    /\ Len(suffix) <= Len(s)
    /\ SubSeq(s, Len(s) - Len(suffix) + 1, Len(s)) = suffix

\* A pattern /\.(a|b|...)$/i: the text ends, whatever its case, with a dot
\* and one of the alternatives.
TestExtension(s, alternatives) ==
    \E e \in alternatives : EndsWith(ToLower(s), "." \o e)

AUDIO_PATTERN(s) == TestExtension(s, {"mp3"})

IMAGE_PATTERN(s) == TestExtension(s, {"jpg", "jpeg", "png", "gif", "webp"})

\* A variant of shouldCache that keeps the image test only.
shouldCacheImagesOnly(pathname) == IMAGE_PATTERN(pathname)

\* A variant of shouldCache that tests the four suffixes in any case, as the
\* image pattern does.
shouldCacheAnyCase(pathname) ==
    \/ IMAGE_PATTERN(pathname)
    \/ EndsWith(ToLower(pathname), ".css")
    \/ EndsWith(ToLower(pathname), ".js")
    \/ EndsWith(ToLower(pathname), ".woff2")
    \/ EndsWith(ToLower(pathname), ".ttf")

\* Lines 131-136.
shouldCache(pathname) ==
    \/ IMAGE_PATTERN(pathname)
    \/ EndsWith(pathname, ".css")
    \/ EndsWith(pathname, ".js")
    \/ EndsWith(pathname, ".woff2")
    \/ EndsWith(pathname, ".ttf")

\* ------------------------------------------------------------------- URLs
\* location.origin, and an origin that is not the worker's.
Origin == "https://pupu.example"
OtherOrigin == "https://cdn.example"

Url(origin, pathname) == [origin |-> origin, pathname |-> pathname]

\* The requests the pages issue.
FetchUrls ==
    { Url(Origin, "/style.css"), Url(Origin, "/theme.jpg"),
      Url(Origin, "/song.mp3"), Url(Origin, "/index.html"),
      Url(OtherOrigin, "/lib.js") }

\* Requests of every class the fetch listener tells apart: images with each
\* extension of line 21 in either case, the four suffixes of lines 133-136,
\* the same suffix in upper case, audio, and paths of no cacheable class;
\* some named by the manifest, most not.
ClassUrls ==
    { Url(Origin, "/img/shu.png"), Url(Origin, "/css/awesome.css"),
      Url(Origin, "/index.html"), Url(Origin, "/theme.jpg"),
      Url(Origin, "/Photo.JPEG"), Url(Origin, "/anim.GIF"),
      Url(Origin, "/bg.webp"), Url(Origin, "/js/app.js"),
      Url(Origin, "/font.woff2"), Url(Origin, "/font.ttf"),
      Url(Origin, "/PRINT.CSS"), Url(Origin, "/data.json"),
      Url(Origin, "/song.mp3") }

\* cache.add(url) resolves the manifest's relative URL against the worker's
\* own URL; the worker script is served from the root of its origin.
Resolve(rel) == Url(Origin, SubSeq(rel, 2, Len(rel)))

\* -------------------------------------------------------------- responses
Response(status, src, n) == [status |-> status, src |-> src, n |-> n]

\* What caches.match resolves to when nothing matches (undefined).
NoResponse == Response(0, "undefined", 0)

\* The statuses the network answers with, and the errors fetch rejects with.
Statuses == {200, 404}
NetErrors == {"TypeError: Failed to fetch", "AbortError"}

\* ---------------------------------------------------------- cache storage
\* Cache storage is the list of its caches in creation order; a cache is
\* [name, id, entries], entries a set of <<request URL, response>> pairs
\* with at most one pair per URL.
Cache(name, id, entries) == [name |-> name, id |-> id, entries |-> entries]

CacheNames(st) == {st[i].name : i \in DOMAIN st}

\* caches.keys(): the names in creation order.
CachesKeys(st) == [i \in DOMAIN st |-> st[i].name]

\* caches.open(name): the cache of that name, created (last) when absent.
CachesOpen(st, name, freshId) ==
    IF name \in CacheNames(st) THEN st
    ELSE Append(st, Cache(name, freshId, {}))

\* The handle caches.open(name) resolves to: the id of the cache so named.
CacheId(st, name) == st[CHOOSE i \in DOMAIN st : st[i].name = name].id

\* caches.delete(name): the cache leaves the name map.
CachesDelete(st, name) == SelectSeq(st, LAMBDA c : c.name # name)

\* cache.match(url) on one cache.
EntriesMatch(entries, url) ==
    IF \E e \in entries : e[1] = url
    THEN (CHOOSE e \in entries : e[1] = url)[2]
    ELSE NoResponse

\* caches.match(request): the caches are searched in creation order and the
\* first match wins.
RECURSIVE CachesMatch(_, _)
CachesMatch(st, url) ==
    IF st = <<>> THEN NoResponse
    ELSE IF EntriesMatch(Head(st).entries, url) # NoResponse
         THEN EntriesMatch(Head(st).entries, url)
         ELSE CachesMatch(Tail(st), url)

\* A variant of CachePut that adds the entry beside the one the cache holds
\* for the URL.
CachePutAppend(st, id, url, resp) ==
    [i \in DOMAIN st |->
        IF st[i].id = id
        THEN Cache(st[i].name, id, st[i].entries \cup {<<url, resp>>})
        ELSE st[i]]

\* cache.put(request, response) through a handle: the entry of that URL is
\* replaced wholesale.  A handle whose cache has been deleted writes to a
\* cache that storage no longer holds.
CachePut(st, id, url, resp) ==
    [i \in DOMAIN st |->
        IF st[i].id = id
        THEN Cache(st[i].name, id,
                   {e \in st[i].entries : e[1] # url} \cup {<<url, resp>>})
        ELSE st[i]]


\* ------------------------------------------------------------------ state
VARIABLES
    store,      \* cache storage: the caches in creation order
    nextId,     \* the id the next created cache gets
    worker,     \* lifecycle: [state, skipWaiting, claimed]
    inst,       \* the install listener's work
    act,        \* the activate listener's work
    req,        \* the fetch events, by number
    msg         \* the message events, by number

vars == <<store, nextId, worker, inst, act, req, msg>>

Files == {CACHE_FILES[i] : i \in DOMAIN CACHE_FILES}
Requests == 1 .. MaxReq
Messages == 1 .. MaxMsg

\* Cache generations left by earlier versions of the site.
OldName == "pupu-cosmos-v0"
OtherName == "pupu-fonts"

Stale(url) == <<url, Response(200, "stale", 0)>>
Kept(url) == <<url, Response(200, "kept", 0)>>

\* Cache storage as the worker may find it when it is installed: empty; an
\* older generation; the current generation already there (the script
\* changed, the name did not); older generations beside the current one.
InitialStores ==
    { <<>>,
      << Cache(OldName, 1, {Stale(Url(Origin, "/style.css")),
                            Stale(Url(Origin, "/song.mp3"))}) >>,
      << Cache(CACHE_NAME, 1, {Kept(Url(Origin, "/style.css")),
                               Kept(Url(Origin, "/song.mp3"))}) >>,
      << Cache(OldName, 1, {Stale(Url(Origin, "/theme.jpg")),
                            Stale(Url(Origin, "/song.mp3"))}),
         Cache(OtherName, 2, {}),
         Cache(CACHE_NAME, 3, {Kept(Url(Origin, "/index.html"))}) >> }

\* The sets of manifest entries whose cache.add fails in one install (the
\* resource is unreachable or answers with an error status).
FailSets == { {}, Files, {"./index.html", "./img/shu.png"} }

NoResult == [kind |-> "none", resp |-> NoResponse, err |-> ""]
NotIntercepted == [kind |-> "notIntercepted", resp |-> NoResponse, err |-> ""]
Pending == [kind |-> "pending", resp |-> NoResponse, err |-> ""]
Responded(resp) == [kind |-> "response", resp |-> resp, err |-> ""]
Rejected(err) == [kind |-> "rejected", resp |-> NoResponse, err |-> err]

IdleRequest ==
    [ pc |-> "idle",            \* where the listener's promise chain stands
      url |-> Url(Origin, "/"), \* event.request.url
      result |-> NoResult,      \* what respondWith's promise settled to
      found |-> NoResponse,     \* what caches.match resolved to
      netResp |-> NoResponse,   \* what fetch resolved to
      netErr |-> "",            \* what fetch rejected with
      persist |-> "none",       \* the fire-and-forget write
      handle |-> 0,             \* the Cache the write goes through
      nFetch |-> 0,             \* network fetches issued for the event
      nMatch |-> 0,             \* cache lookups issued for the event
      nPut |-> 0 ]              \* cache.put calls issued for the event

IdleMessage == [pc |-> "idle", data |-> "none", reply |-> "none"]

Init ==
    /\ store \in InitialStores
    /\ nextId = Len(store) + 1
    /\ worker = [state |-> "parsed", skipWaiting |-> FALSE, claimed |-> FALSE]
    /\ inst = [pc |-> "idle", work |-> "none", handle |-> 0,
               adds |-> [u \in Files |-> "none"], failing |-> {},
               nAdd |-> [u \in Files |-> 0]]
    /\ act = [pc |-> "idle", work |-> "none", targets |-> {}, pending |-> {}]
    /\ req = [r \in Requests |-> IdleRequest]
    /\ msg = [m \in Messages |-> IdleMessage]

\* ---------------------------------------------------------------- install
\* Lines 31-34: the manifest without the entries the audio pattern matches.
filesToCache == SelectSeq(CACHE_FILES, LAMBDA url : ~AUDIO_PATTERN(url))

\* A variant of InstallCatch without the .catch of lines 48-51: a failed
\* open rejects the registered work.
InstallNoCatch == "rejected"

\* Lines 48-51: the .catch at the end of the chain absorbs a failed open.
InstallCatch == "fulfilled"

\* Lines 37-46: Promise.allSettled over the adds, each with its own .catch,
\* fulfils once every add has settled, whatever each did.
InstallAllSettled(adds) ==
    IF \A u \in Files : adds[u] # "pending" THEN "fulfilled" ELSE "pending"

\* A variant of InstallEvent without line 54: skipWaiting is not called.
InstallEventNoSkip ==
    /\ worker.state = "parsed"
    /\ inst' = [inst EXCEPT !.pc = "open", !.work = "pending"]
    /\ worker' = [worker EXCEPT !.state = "installing"]
    /\ UNCHANGED <<store, nextId, act, req, msg>>

\* Lines 24-55, the listener's body: waitUntil registers the chain that
\* starts with caches.open(CACHE_NAME), then skipWaiting() is called.
InstallEvent ==
    /\ worker.state = "parsed"
    /\ inst' = [inst EXCEPT !.pc = "open", !.work = "pending"]
    /\ worker' = [worker EXCEPT !.state = "installing", !.skipWaiting = TRUE]
    /\ UNCHANGED <<store, nextId, act, req, msg>>

\* Lines 27-47: caches.open settles.  Fulfilled: every file of filesToCache
\* is handed to cache.add, and the network decides which of the adds will
\* fail.  Rejected: the chain's .catch runs.
InstallOpenSettle ==
    /\ inst.pc = "open"
    /\ \/ /\ store' = CachesOpen(store, CACHE_NAME, nextId)
          /\ nextId' = IF CACHE_NAME \in CacheNames(store) THEN nextId ELSE nextId + 1
          /\ LET called == {filesToCache[i] : i \in DOMAIN filesToCache}
                 adds == [u \in Files |-> IF u \in called THEN "pending" ELSE "none"]
             IN \E f \in FailSets :
                   inst' = [inst EXCEPT !.pc = IF called = {} THEN "done" ELSE "adds",
                                        !.handle = CacheId(store', CACHE_NAME),
                                        !.adds = adds,
                                        !.nAdd = [u \in Files |->
                                                    IF u \in called THEN 1 ELSE 0],
                                        !.failing = f,
                                        !.work = InstallAllSettled(adds)]
       \/ /\ inst' = [inst EXCEPT !.pc = "done", !.work = InstallCatch]
          /\ UNCHANGED <<store, nextId>>
    /\ UNCHANGED <<worker, act, req, msg>>

\* A variant of InstallAddSettle in which the first failed add aborts the
\* adds still pending, as cache.addAll or Promise.all would.
InstallAddSettleAbort(u) ==
    /\ inst.pc = "adds"
    /\ inst.adds[u] = "pending"
    /\ LET ok == u \notin inst.failing
           adds == IF ok THEN [inst.adds EXCEPT ![u] = "ok"]
                   ELSE [v \in Files |-> IF inst.adds[v] = "pending"
                                         THEN "failed" ELSE inst.adds[v]]
       IN /\ store' = IF ok
                      THEN CachePut(store, inst.handle, Resolve(u),
                                    Response(200, "add", 0))
                      ELSE store
          /\ inst' = [inst EXCEPT !.adds = adds,
                                  !.work = InstallAllSettled(adds),
                                  !.pc = IF InstallAllSettled(adds) = "pending"
                                         THEN "adds" ELSE "done"]
    /\ UNCHANGED <<nextId, worker, act, req, msg>>

\* Lines 38-43: one cache.add settles.  It stores the fetched response under
\* the resolved URL, or rejects and the rejection is logged and dropped.
InstallAddSettle(u) ==
    /\ inst.pc = "adds"
    /\ inst.adds[u] = "pending"
    /\ LET ok == u \notin inst.failing
           adds == [inst.adds EXCEPT ![u] = IF ok THEN "ok" ELSE "failed"]
       IN /\ store' = IF ok
                      THEN CachePut(store, inst.handle, Resolve(u),
                                    Response(200, "add", 0))
                      ELSE store
          /\ inst' = [inst EXCEPT !.adds = adds,
                                  !.work = InstallAllSettled(adds),
                                  !.pc = IF InstallAllSettled(adds) = "pending"
                                         THEN "adds" ELSE "done"]
    /\ UNCHANGED <<nextId, worker, act, req, msg>>

\* The host ends the install phase when the registered work has settled: the
\* worker is installed, or redundant when the work rejected.
InstallDone ==
    /\ worker.state = "installing"
    /\ inst.work \in {"fulfilled", "rejected"}
    /\ worker' = [worker EXCEPT !.state = IF inst.work = "fulfilled"
                                          THEN "installed" ELSE "redundant"]
    /\ UNCHANGED <<store, nextId, inst, act, req, msg>>

\* --------------------------------------------------------------- activate
\* A variant of ActivateTargets without the comparison of line 65: every
\* cache is deleted, the current one too.
ActivateTargetsAll(cacheNames) == {cacheNames[i] : i \in DOMAIN cacheNames}

\* Lines 63-69: the names caches.delete is called for.
ActivateTargets(cacheNames) ==
    {cacheNames[i] : i \in {j \in DOMAIN cacheNames : cacheNames[j] # CACHE_NAME}}

\* A variant of ActivateAll with Promise.allSettled for Promise.all: the work
\* fulfils once every delete has settled, failed or not.
ActivateAllSettled(work, pending, ok) ==
    IF work # "pending" THEN work
    ELSE IF pending = {} THEN "fulfilled"
    ELSE "pending"

\* Lines 62-70: Promise.all rejects with the first rejection and fulfils
\* when every delete has fulfilled.
ActivateAll(work, pending, ok) ==
    IF work # "pending" THEN work
    ELSE IF ~ok THEN "rejected"
    ELSE IF pending = {} THEN "fulfilled"
    ELSE "pending"

\* A variant of ActivateEvent without line 74: the clients are not claimed.
ActivateEventNoClaim ==
    /\ worker.state = "installed"
    /\ worker.skipWaiting
    /\ worker' = [worker EXCEPT !.state = "activating"]
    /\ act' = [act EXCEPT !.pc = "keys", !.work = "pending"]
    /\ UNCHANGED <<store, nextId, inst, req, msg>>

\* Lines 58-75, the listener's body: waitUntil registers the chain that
\* starts with caches.keys(), then clients.claim() is called.  skipWaiting
\* let the installed worker activate without waiting.
ActivateEvent ==
    /\ worker.state = "installed"
    /\ worker.skipWaiting
    /\ worker' = [worker EXCEPT !.state = "activating", !.claimed = TRUE]
    /\ act' = [act EXCEPT !.pc = "keys", !.work = "pending"]
    /\ UNCHANGED <<store, nextId, inst, req, msg>>

\* Lines 61-71: caches.keys() settles and caches.delete is called for every
\* name that is not CACHE_NAME.
ActivateKeysSettle ==
    /\ act.pc = "keys"
    /\ LET targets == ActivateTargets(CachesKeys(store))
       IN act' = [act EXCEPT !.pc = IF targets = {} THEN "done" ELSE "deletes",
                             !.targets = targets,
                             !.pending = targets,
                             !.work = ActivateAll(act.work, targets, TRUE)]
    /\ UNCHANGED <<store, nextId, worker, inst, req, msg>>

\* Line 67: one caches.delete settles; the host may fail to delete.
ActivateDeleteSettle(name) ==
    /\ act.pc = "deletes"
    /\ name \in act.pending
    /\ \E ok \in BOOLEAN :
          /\ store' = IF ok THEN CachesDelete(store, name) ELSE store
          /\ LET pending == act.pending \ {name}
             IN act' = [act EXCEPT !.pending = pending,
                                   !.pc = IF pending = {} THEN "done" ELSE "deletes",
                                   !.work = ActivateAll(act.work, pending, ok)]
    /\ UNCHANGED <<nextId, worker, inst, req, msg>>

\* The host ends the activate phase when the registered work has settled,
\* fulfilled or not: the worker is activated and receives fetch events.
ActivateDone ==
    /\ worker.state = "activating"
    /\ act.work \in {"fulfilled", "rejected"}
    /\ worker' = [worker EXCEPT !.state = "activated"]
    /\ UNCHANGED <<store, nextId, inst, act, req, msg>>

\* ------------------------------------------------------------------ fetch
\* A variant of SameOrigin without the comparison of line 82.
SameOriginAlways(url) == TRUE

\* Line 82: only requests to the worker's own origin are handled.
SameOrigin(url) == url.origin = Origin

\* Line 88.
isAudio(url) == AUDIO_PATTERN(url.pathname)

\* A variant of IsValid that accepts every status.
IsValidAnyStatus(response) == response # NoResponse

\* Line 123, negated: the response is there and its status is exactly 200.
IsValid(response) == response # NoResponse /\ response.status = 200

\* A variant of AudioFallback that throws an error of its own on a miss.
AudioFallbackNewError(cachedResponse, error) ==
    IF cachedResponse # NoResponse THEN Responded(cachedResponse)
    ELSE Rejected("Error: not cached")

\* A variant of AudioFallback that rethrows without looking at the match.
AudioFallbackRethrow(cachedResponse, error) == Rejected(error)

\* Lines 97-103: the reaction to the audio branch's cache lookup.
AudioFallback(cachedResponse, error) ==
    IF cachedResponse # NoResponse THEN Responded(cachedResponse)
    ELSE Rejected(error)

\* Lines 78-110, the listener's body for request number r, the requests
\* being numbered in the order of their events.
FetchEvent(r, u) ==
    /\ worker.state = "activated"
    /\ req[r].pc = "idle"
    /\ \A q \in Requests : q < r => req[q].pc # "idle"
    /\ req' = [req EXCEPT ![r] =
          IF ~SameOrigin(u)
          THEN [@ EXCEPT !.pc = "passthrough", !.url = u, !.result = NotIntercepted]
          ELSE IF isAudio(u)
          THEN [@ EXCEPT !.pc = "audioNet", !.url = u, !.result = Pending,
                         !.nFetch = @ + 1]
          ELSE [@ EXCEPT !.pc = "match", !.url = u, !.result = Pending,
                         !.nMatch = @ + 1]]
    /\ UNCHANGED <<store, nextId, worker, inst, act, msg>>

\* A variant of AudioNetSettle that calls fetch a second time when the first
\* call rejects, before it falls back to the cache.
AudioNetSettleRetry(r) ==
    /\ req[r].pc = "audioNet"
    /\ \/ \E s \in Statuses :
             req' = [req EXCEPT ![r] =
                       [@ EXCEPT !.pc = "done",
                                 !.netResp = Response(s, "net", r),
                                 !.result = Responded(Response(s, "net", r))]]
       \/ /\ req[r].nFetch < 2
          /\ req' = [req EXCEPT ![r] = [@ EXCEPT !.nFetch = @ + 1]]
       \/ /\ req[r].nFetch >= 2
          /\ \E e \in NetErrors :
                req' = [req EXCEPT ![r] =
                          [@ EXCEPT !.pc = "audioMatch", !.netErr = e,
                                    !.nMatch = @ + 1]]
    /\ UNCHANGED <<store, nextId, worker, inst, act, msg>>

\* A variant of AudioNetSettle that caches the audio on demand, as the
\* comment of line 32 announces: a response of status 200 starts a write.
AudioNetSettleCaching(r) ==
    /\ req[r].pc = "audioNet"
    /\ \/ \E s \in Statuses :
             req' = [req EXCEPT ![r] =
                       [@ EXCEPT !.pc = "done",
                                 !.netResp = Response(s, "net", r),
                                 !.result = Responded(Response(s, "net", r)),
                                 !.persist = IF s = 200 THEN "open" ELSE "none"]]
       \/ \E e \in NetErrors :
             req' = [req EXCEPT ![r] =
                       [@ EXCEPT !.pc = "audioMatch", !.netErr = e,
                                 !.nMatch = @ + 1]]
    /\ UNCHANGED <<store, nextId, worker, inst, act, msg>>

\* Lines 93-97, audio: fetch settles.  Fulfilled: the response goes to the
\* caller.  Rejected: caches.match is called.
AudioNetSettle(r) ==
    /\ req[r].pc = "audioNet"
    /\ \/ \E s \in Statuses :
             req' = [req EXCEPT ![r] =
                       [@ EXCEPT !.pc = "done",
                                 !.netResp = Response(s, "net", r),
                                 !.result = Responded(Response(s, "net", r))]]
       \/ \E e \in NetErrors :
             req' = [req EXCEPT ![r] =
                       [@ EXCEPT !.pc = "audioMatch", !.netErr = e,
                                 !.nMatch = @ + 1]]
    /\ UNCHANGED <<store, nextId, worker, inst, act, msg>>

\* Lines 97-103, audio: the cache lookup settles.
AudioMatchSettle(r) ==
    /\ req[r].pc = "audioMatch"
    /\ LET cachedResponse == CachesMatch(store, req[r].url)
       IN req' = [req EXCEPT ![r] =
                    [@ EXCEPT !.pc = "done", !.found = cachedResponse,
                              !.result = AudioFallback(cachedResponse, req[r].netErr)]]
    /\ UNCHANGED <<store, nextId, worker, inst, act, msg>>

\* A variant of MatchSettle that calls fetch on a hit as well, to refresh
\* the entry.
MatchSettleRefresh(r) ==
    /\ req[r].pc = "match"
    /\ LET cachedResponse == CachesMatch(store, req[r].url)
       IN req' = [req EXCEPT ![r] =
                    [@ EXCEPT !.pc = "net", !.found = cachedResponse,
                              !.nFetch = @ + 1]]
    /\ UNCHANGED <<store, nextId, worker, inst, act, msg>>

\* Lines 111-120: the cache lookup settles.  A hit goes to the caller; a
\* miss calls fetch.
MatchSettle(r) ==
    /\ req[r].pc = "match"
    /\ LET cachedResponse == CachesMatch(store, req[r].url)
       IN req' = [req EXCEPT ![r] =
                    IF cachedResponse # NoResponse
                    THEN [@ EXCEPT !.pc = "done", !.found = cachedResponse,
                                   !.result = Responded(cachedResponse)]
                    ELSE [@ EXCEPT !.pc = "net", !.nFetch = @ + 1]]
    /\ UNCHANGED <<store, nextId, worker, inst, act, msg>>

\* A variant of NetSettle that, like the audio branch, looks the request up
\* again when fetch rejects.
NetSettleFallback(r) ==
    /\ req[r].pc = "net"
    /\ \/ \E s \in Statuses :
             LET response == Response(s, "net", r)
             IN req' = [req EXCEPT ![r] =
                   [@ EXCEPT !.pc = "done", !.netResp = response,
                             !.result = Responded(response),
                             !.persist =
                                 IF IsValid(response) /\ shouldCache(req[r].url.pathname)
                                 THEN "open" ELSE "none"]]
       \/ \E e \in NetErrors :
             req' = [req EXCEPT ![r] =
                       [@ EXCEPT !.pc = "audioMatch", !.netErr = e,
                                 !.nMatch = @ + 1]]
    /\ UNCHANGED <<store, nextId, worker, inst, act, msg>>

\* Lines 120-152: fetch settles.  Fulfilled: the response goes to the
\* caller, and a valid response of a path shouldCache accepts starts the
\* write with caches.open(CACHE_NAME).  Rejected: the error is rethrown.
NetSettle(r) ==
    /\ req[r].pc = "net"
    /\ \/ \E s \in Statuses :
             LET response == Response(s, "net", r)
             IN req' = [req EXCEPT ![r] =
                   [@ EXCEPT !.pc = "done", !.netResp = response,
                             !.result = Responded(response),
                             !.persist =
                                 IF IsValid(response) /\ shouldCache(req[r].url.pathname)
                                 THEN "open" ELSE "none"]]
       \/ \E e \in NetErrors :
             req' = [req EXCEPT ![r] =
                       [@ EXCEPT !.pc = "done", !.netErr = e,
                                 !.result = Rejected(e)]]
    /\ UNCHANGED <<store, nextId, worker, inst, act, msg>>

\* A variant of PersistOpenSettle in which the listener returns the write's
\* promise chain: a failed caches.open rejects the caller's promise.
PersistOpenSettleSurface(r) ==
    /\ req[r].persist = "open"
    /\ \/ /\ store' = CachesOpen(store, CACHE_NAME, nextId)
          /\ nextId' = IF CACHE_NAME \in CacheNames(store) THEN nextId ELSE nextId + 1
          /\ req' = [req EXCEPT ![r] =
                       [@ EXCEPT !.persist = "put",
                                 !.nPut = @ + 1,
                                 !.handle = CacheId(store', CACHE_NAME)]]
       \/ /\ req' = [req EXCEPT ![r] =
                       [@ EXCEPT !.persist = "openFailed",
                                 !.result = Rejected("UnknownError")]]
          /\ UNCHANGED <<store, nextId>>
    /\ UNCHANGED <<worker, inst, act, msg>>

\* Lines 139-141: the write's caches.open settles.  Fulfilled: cache.put is
\* called on the Cache it resolved to.  Rejected: nothing handles it.
PersistOpenSettle(r) ==
    /\ req[r].persist = "open"
    /\ \/ /\ store' = CachesOpen(store, CACHE_NAME, nextId)
          /\ nextId' = IF CACHE_NAME \in CacheNames(store) THEN nextId ELSE nextId + 1
          /\ req' = [req EXCEPT ![r] =
                       [@ EXCEPT !.persist = "put",
                                 !.nPut = @ + 1,
                                 !.handle = CacheId(store', CACHE_NAME)]]
       \/ /\ req' = [req EXCEPT ![r] = [@ EXCEPT !.persist = "openFailed"]]
          /\ UNCHANGED <<store, nextId>>
    /\ UNCHANGED <<worker, inst, act, msg>>

\* Lines 141-143: the write's cache.put settles.  Fulfilled: the clone is
\* stored under the request.  Rejected: the rejection is logged.
PersistPutSettle(r) ==
    /\ req[r].persist = "put"
    /\ \/ /\ store' = CachePut(store, req[r].handle, req[r].url, req[r].netResp)
          /\ req' = [req EXCEPT ![r] = [@ EXCEPT !.persist = "stored"]]
       \/ /\ req' = [req EXCEPT ![r] = [@ EXCEPT !.persist = "putFailed"]]
          /\ UNCHANGED store
    /\ UNCHANGED <<nextId, worker, inst, act, msg>>

\* ---------------------------------------------------------------- message
\* The payloads a page posts: none, the clear-cache request, another type.
MessageData == {"absent", "CLEAR_CACHE", "PING"}

\* Line 159.
IsClearCache(data) == data # "absent" /\ data = "CLEAR_CACHE"

\* A variant of MessageEvent that posts the acknowledgement from the
\* listener's body, without waiting for caches.delete.
MessageEventEagerAck(m, data) ==
    /\ worker.state \in {"installing", "installed", "activating", "activated"}
    /\ msg[m].pc = "idle"
    /\ \A k \in Messages : k < m => msg[k].pc # "idle"
    /\ msg' = [msg EXCEPT ![m] =
                 [@ EXCEPT !.data = data,
                           !.pc = IF data = "CLEAR_CACHE" THEN "deleting"
                                  ELSE "ignored",
                           !.reply = IF data = "CLEAR_CACHE" THEN "success"
                                     ELSE "none"]]
    /\ UNCHANGED <<store, nextId, worker, inst, act, req>>

\* Lines 158-160, the listener's body for message number m: a clear-cache
\* request calls caches.delete(CACHE_NAME).  Pages post to the worker from
\* the moment it is installing.
MessageEvent(m, data) ==
    /\ worker.state \in {"installing", "installed", "activating", "activated"}
    /\ msg[m].pc = "idle"
    /\ \A k \in Messages : k < m => msg[k].pc # "idle"
    /\ msg' = [msg EXCEPT ![m] =
                 [@ EXCEPT !.data = data,
                           !.pc = IF IsClearCache(data) THEN "deleting"
                                  ELSE "ignored"]]
    /\ UNCHANGED <<store, nextId, worker, inst, act, req>>

\* Lines 160-163: caches.delete settles.  Fulfilled (with true or false):
\* the acknowledgement is posted on the reply port.  Rejected: nothing
\* handles it.
MessageDeleteSettle(m) ==
    /\ msg[m].pc = "deleting"
    /\ \/ /\ store' = CachesDelete(store, CACHE_NAME)
          /\ msg' = [msg EXCEPT ![m] = [@ EXCEPT !.pc = "replied",
                                                 !.reply = "success"]]
       \/ /\ msg' = [msg EXCEPT ![m] = [@ EXCEPT !.pc = "failed"]]
          /\ UNCHANGED store
    /\ UNCHANGED <<nextId, worker, inst, act, req>>

\* ---------------------------------------------------------- specification
Next ==
    \/ InstallEvent
    \/ InstallOpenSettle
    \/ \E u \in Files : InstallAddSettle(u)
    \/ InstallDone
    \/ ActivateEvent
    \/ ActivateKeysSettle
    \/ \E name \in act.pending : ActivateDeleteSettle(name)
    \/ ActivateDone
    \/ \E r \in Requests, u \in FetchUrls : FetchEvent(r, u)
    \/ \E r \in Requests : AudioNetSettle(r)
    \/ \E r \in Requests : AudioMatchSettle(r)
    \/ \E r \in Requests : MatchSettle(r)
    \/ \E r \in Requests : NetSettle(r)
    \/ \E r \in Requests : PersistOpenSettle(r)
    \/ \E r \in Requests : PersistPutSettle(r)
    \/ \E m \in Messages, data \in MessageData : MessageEvent(m, data)
    \/ \E m \in Messages : MessageDeleteSettle(m)

Spec == Init /\ [][Next]_vars

\* One page request, of any class of ClassUrls, beside the install, the
\* activation and the messages.
NextClassify ==
    \/ InstallEvent
    \/ InstallOpenSettle
    \/ \E u \in Files : InstallAddSettle(u)
    \/ InstallDone
    \/ ActivateEvent
    \/ ActivateKeysSettle
    \/ \E name \in act.pending : ActivateDeleteSettle(name)
    \/ ActivateDone
    \/ \E u \in ClassUrls : FetchEvent(1, u)
    \/ AudioNetSettle(1)
    \/ AudioMatchSettle(1)
    \/ MatchSettle(1)
    \/ NetSettle(1)
    \/ PersistOpenSettle(1)
    \/ PersistPutSettle(1)
    \/ \E m \in Messages, data \in MessageData : MessageEvent(m, data)
    \/ \E m \in Messages : MessageDeleteSettle(m)

SpecClassify == Init /\ [][NextClassify]_vars

\* ------------------------------------------------------------- properties
\* C1: once the work the activate listener registered has completed, no
\* cache whose name differs from CACHE_NAME exists in cache storage,
\* whatever generations existed when activation started.
C1_NoOtherGenerationAfterActivate ==
    act.work = "fulfilled" => \A n \in CacheNames(store) : n = CACHE_NAME

\* C1 witness: activation completed after deleting two older generations.
C1_Witness ==
    /\ act.work = "fulfilled"
    /\ act.targets = {OldName, OtherName}
    /\ act.pending = {}

\* C2 as claimed: after activation the set of cache names is exactly
\* {CACHE_NAME}, in every run.
C2_ExactlyCurrentAfterActivate ==
    (worker.state = "activated" /\ act.work = "fulfilled")
        => CacheNames(store) = {CACHE_NAME}

\* C2 amended: after activation completed, cache storage holds no name but
\* CACHE_NAME, and CACHE_NAME itself is missing only when the install-time
\* caches.open failed or a CLEAR_CACHE message deleted the cache.
C2_AtMostCurrentAfterActivate ==
    (worker.state = "activated" /\ act.work = "fulfilled")
        => /\ CacheNames(store) \subseteq {CACHE_NAME}
           /\ CACHE_NAME \notin CacheNames(store)
                 => \/ inst.handle = 0
                    \/ \E m \in Messages : msg[m].pc = "replied"

\* C2 witness: activated after deleting an older generation, with the
\* current generation as the only cache.
C2_Witness ==
    /\ worker.state = "activated"
    /\ act.work = "fulfilled"
    /\ act.targets # {}
    /\ CacheNames(store) = {CACHE_NAME}

\* The paths of FetchUrls by class, as the patterns of lines 20-21 and
\* 131-136 class them.
AudioPaths == {"/song.mp3"}
CacheablePaths == {"/style.css", "/theme.jpg"}

\* The entries of the cache called name (none when there is no such cache).
EntriesOf(st, name) ==
    UNION {st[i].entries : i \in {j \in DOMAIN st : st[j].name = name}}

\* Every <<URL, response>> pair held by some cache of the storage.
AllEntries(st) == UNION {st[i].entries : i \in DOMAIN st}
HasEntry(entries, url) == \E e \in entries : e[1] = url
HandleLive(st, id) == \E i \in DOMAIN st : st[i].id = id

\* Request r is a same-origin request of a cacheable, non-audio path that
\* missed every cache and that the network answered with status 200.
CacheableMiss200(q) ==
    /\ q.pc = "done"
    /\ q.url.origin = Origin
    /\ q.url.pathname \in CacheablePaths
    /\ q.found = NoResponse
    /\ q.netResp.status = 200

\* C3 as claimed: a cacheable miss answered with 200 performs one network
\* fetch, returns that response, and the current generation comes to hold
\* an entry for the request: with the write over and the cache never
\* cleared, the entry is there.
C3_MissIsCached ==
    \A r \in Requests :
        CacheableMiss200(req[r])
            => /\ req[r].result = Responded(req[r].netResp)
               /\ req[r].nFetch = 1
               /\ ( /\ req[r].persist \in {"stored", "openFailed", "putFailed"}
                    /\ \A m \in Messages : msg[m].data # "CLEAR_CACHE" )
                     => HasEntry(EntriesOf(store, CACHE_NAME), req[r].url)

\* C3 amended: a cacheable miss answered with 200 performs one network
\* fetch, returns that response and starts the write; the current
\* generation holds the response under the request from the step at which
\* cache.put fulfils on a cache that has not been deleted since it was
\* opened.
C3_MissIsCachedWhenPutLands ==
    [][\A r \in Requests :
          /\ CacheableMiss200(req'[r])
                => /\ req'[r].result = Responded(req'[r].netResp)
                   /\ req'[r].nFetch = 1
                   /\ req'[r].persist # "none"
          /\ ( /\ req[r].persist = "put"
               /\ req'[r].persist = "stored"
               /\ HandleLive(store, req[r].handle) )
                => <<req[r].url, req[r].netResp>> \in EntriesOf(store', CACHE_NAME)
      ]_vars

\* C3 witness: /style.css missed, was answered with 200, and the response
\* is in the current generation.
C3_Witness ==
    \E r \in Requests :
        /\ CacheableMiss200(req[r])
        /\ req[r].url.pathname = "/style.css"
        /\ req[r].persist = "stored"
        /\ <<req[r].url, req[r].netResp>> \in EntriesOf(store, CACHE_NAME)

\* C4: when the lookup of a same-origin non-audio request finds an entry,
\* the caller gets that entry, no network fetch is issued for the request
\* and nothing is written to cache storage, at the lookup or later.
C4_HitServedFromCache ==
    [][\A r \in Requests :
          /\ ( /\ req[r].pc = "match"
               /\ req'[r].pc # "match"
               /\ HasEntry(AllEntries(store), req[r].url) )
                => /\ req'[r].pc = "done"
                   /\ req'[r].result.kind = "response"
                   /\ <<req[r].url, req'[r].result.resp>> \in AllEntries(store)
                   /\ store' = store
          /\ ( /\ req'[r].url.origin = Origin
               /\ req'[r].url.pathname \notin AudioPaths
               /\ req'[r].found # NoResponse )
                => /\ req'[r].pc = "done"
                   /\ req'[r].result = Responded(req'[r].found)
                   /\ req'[r].nFetch = 0
                   /\ req'[r].persist = "none"
      ]_vars

\* C4 witness: the second request for a URL is served, without a network
\* fetch, the response the first request fetched and cached.
C4_Witness ==
    \E r1, r2 \in Requests :
        /\ r1 < r2
        /\ req[r1].persist = "stored"
        /\ req[r2].url = req[r1].url
        /\ req[r2].result = Responded(req[r1].netResp)
        /\ req[r2].nFetch = 0

\* C5: on a miss of a same-origin non-audio request, a network response
\* whose status is not 200 goes to the caller unchanged and is not written;
\* every entry the fetch listener wrote has status 200.
C5_OnlyStatus200Cached ==
    /\ \A r \in Requests :
          ( /\ req[r].pc = "done"
            /\ req[r].url.origin = Origin
            /\ req[r].url.pathname \notin AudioPaths
            /\ req[r].found = NoResponse
            /\ req[r].netResp # NoResponse
            /\ req[r].netResp.status # 200 )
             => /\ req[r].result = Responded(req[r].netResp)
                /\ req[r].persist = "none"
    /\ \A e \in AllEntries(store) : e[2].src = "net" => e[2].status = 200

\* C5 witness: /theme.jpg answered with 404, returned to the caller.
C5_Witness ==
    \E r \in Requests :
        /\ req[r].pc = "done"
        /\ req[r].url = Url(Origin, "/theme.jpg")
        /\ req[r].netResp.status = 404
        /\ req[r].result = Responded(req[r].netResp)

\* C6: for a same-origin audio request whose network fetch rejected, when
\* the lookup that follows finds no entry in any cache, the caller's promise
\* rejects with the error the network fetch rejected with.
C6_AudioFailurePropagates ==
    [][\A r \in Requests :
          /\ (req[r].pc = "audioNet" /\ req'[r].pc = "audioMatch")
                => req'[r].netErr \in NetErrors /\ req'[r].result = Pending
          /\ ( /\ req[r].pc = "audioMatch"
               /\ req'[r].pc # "audioMatch"
               /\ ~HasEntry(AllEntries(store), req[r].url) )
                => req'[r].result = Rejected(req[r].netErr)
      ]_vars

\* C6 witness: /song.mp3, the network failed, nothing was cached, and the
\* caller got the network's error.
C6_Witness ==
    \E r \in Requests :
        /\ req[r].pc = "done"
        /\ req[r].url = Url(Origin, "/song.mp3")
        /\ req[r].netErr = "AbortError"
        /\ req[r].found = NoResponse
        /\ req[r].result = Rejected("AbortError")

\* C7: for a same-origin audio request, when the network fetch rejects and
\* a cache holds an entry for the request, the caller gets a cached entry
\* of that request; when the network fetch fulfils, the caller gets the
\* network response, and the cache is neither read nor written.
C7_AudioFallsBackToCache ==
    [][\A r \in Requests :
          /\ ( /\ req[r].pc = "audioMatch"
               /\ req'[r].pc # "audioMatch"
               /\ HasEntry(AllEntries(store), req[r].url) )
                => /\ req'[r].result.kind = "response"
                   /\ <<req[r].url, req'[r].result.resp>> \in AllEntries(store)
                   /\ store' = store
          /\ (req[r].pc = "audioNet" /\ req'[r].pc = "done")
                => /\ req'[r].result = Responded(req'[r].netResp)
                   /\ req'[r].netResp.src = "net"
                   /\ store' = store
          /\ ( /\ req'[r].url.origin = Origin
               /\ req'[r].url.pathname \in AudioPaths
               /\ req'[r].netResp # NoResponse )
                => /\ req'[r].nMatch = 0
                   /\ req'[r].persist = "none"
      ]_vars

\* C7 witness: /song.mp3, the network failed, and the caller got the entry
\* cache storage held.
C7_Witness ==
    \E r \in Requests :
        /\ req[r].pc = "done"
        /\ req[r].url = Url(Origin, "/song.mp3")
        /\ req[r].netErr # ""
        /\ req[r].found # NoResponse
        /\ req[r].result = Responded(req[r].found)

\* C8: a request to another origin is not intercepted: respondWith is not
\* called, no cache lookup and no network fetch are issued, nothing is
\* written, and the listener leaves cache storage as it was.
C8_CrossOriginUntouched ==
    [][\A r \in Requests :
          (req'[r].pc # "idle" /\ req'[r].url.origin # Origin)
             => /\ req'[r].pc = "passthrough"
                /\ req'[r].result = NotIntercepted
                /\ req'[r].nMatch = 0
                /\ req'[r].nFetch = 0
                /\ req'[r].persist = "none"
                /\ req[r].pc = "idle" => store' = store
      ]_vars

\* C8 witness: a request to the other origin has been dispatched.
C8_Witness ==
    \E r \in Requests :
        /\ req[r].pc = "passthrough"
        /\ req[r].url.origin = OtherOrigin

\* C9: the acknowledgement of a CLEAR_CACHE message is posted at the step
\* at which its caches.delete fulfils, not before, and at that step the
\* current generation holds no entry, whatever fetch listeners and writes
\* are in flight; a message of another type, or without payload, changes
\* nothing and gets no reply.
C9_ClearCacheAcknowledged ==
    [][\A m \in Messages :
          /\ (msg[m].reply = "none" /\ msg'[m].reply # "none")
                => /\ msg[m].data = "CLEAR_CACHE"
                   /\ msg[m].pc = "deleting"
                   /\ msg'[m].reply = "success"
                   /\ CACHE_NAME \notin CacheNames(store')
                   /\ EntriesOf(store', CACHE_NAME) = {}
          /\ (msg[m].pc = "deleting" /\ msg'[m].pc = "replied")
                => msg'[m].reply = "success"
          /\ (msg'[m].pc # "idle" /\ msg'[m].data # "CLEAR_CACHE")
                => /\ msg'[m].pc = "ignored"
                   /\ msg'[m].reply = "none"
                   /\ msg[m].pc = "idle" => store' = store
      ]_vars

\* C9 witness: the acknowledgement has been posted while a write opened
\* before the deletion is still to put its response.
C9_Witness ==
    \E m \in Messages, r \in Requests :
        /\ msg[m].reply = "success"
        /\ req[r].persist = "put"
        /\ ~HandleLive(store, req[r].handle)

\* C10: the work the install listener registered never rejects: it fulfils
\* when every cache.add failed, and when caches.open failed, in which case
\* no add was attempted.
C10_InstallNeverFails ==
    /\ inst.work # "rejected"
    /\ worker.state # "redundant"
    /\ inst.pc = "done" => inst.work = "fulfilled"
    /\ (inst.pc = "done" /\ inst.handle = 0)
          => \A u \in Files : inst.adds[u] = "none"

\* C10 witness: the worker is installed although every cache.add failed.
C10_Witness ==
    /\ worker.state = "installed"
    /\ inst.work = "fulfilled"
    /\ \A u \in Files : inst.adds[u] = "failed"

\* The manifest entries that end in .mp3, whatever the case: none.
AudioFiles == {}

\* C11 as claimed: the adds are those of the manifest entries that are not
\* audio, each succeeds or fails on its own, and at the step at which the
\* install work completes every entry whose add succeeded is in the current
\* generation under its resolved URL.
C11_AddedRetrievableAtCompletion ==
    [][( /\ inst.work = "pending"
         /\ inst'.work = "fulfilled"
         /\ inst'.handle # 0 )
          => \A u \in Files :
                /\ inst'.adds[u] # "none" <=> u \notin AudioFiles
                /\ inst'.adds[u] = "ok" <=> u \notin inst'.failing
                /\ inst'.adds[u] = "ok"
                      => HasEntry(EntriesOf(store', CACHE_NAME), Resolve(u))
      ]_vars

\* C11 amended: once caches.open has fulfilled, the adds are those of the
\* manifest entries that are not audio; an add fails exactly when its own
\* resource fails; and every entry whose add succeeded is in the current
\* generation under its resolved URL for as long as the cache the install
\* listener opened has not been deleted.
C11_AddedRetrievableWhileCacheLives ==
    inst.handle # 0
       => \A u \in Files :
             /\ inst.adds[u] # "none" <=> u \notin AudioFiles
             /\ inst.adds[u] = "failed" => u \in inst.failing
             /\ inst.adds[u] = "ok" => u \notin inst.failing
             /\ (inst.adds[u] = "ok" /\ HandleLive(store, inst.handle))
                   => /\ inst.handle = CacheId(store, CACHE_NAME)
                      /\ HasEntry(EntriesOf(store, CACHE_NAME), Resolve(u))

\* C11 witness: install has completed, the adds of ./index.html and
\* ./img/shu.png failed, and the eight other entries are in the current
\* generation.
C11_Witness ==
    /\ inst.work = "fulfilled"
    /\ \A u \in Files :
          inst.adds[u] = IF u \in {"./index.html", "./img/shu.png"}
                         THEN "failed" ELSE "ok"
    /\ \A u \in Files :
          HasEntry(EntriesOf(store, CACHE_NAME), Resolve(u))
             <=> inst.adds[u] = "ok"

\* C12: when the lookup of a same-origin non-audio request found nothing
\* and the network fetch rejected, the caller's promise is rejected with the
\* error of the fetch: the cache is not looked up again, no cached response
\* is substituted, also when the cache has come to hold one, and no write is
\* started.
C12_NetworkFailurePropagates ==
    \A r \in Requests :
        ( /\ req[r].url.origin = Origin
          /\ req[r].url.pathname \notin AudioPaths
          /\ req[r].netErr # "" )
           => /\ req[r].pc = "done"
              /\ req[r].result = Rejected(req[r].netErr)
              /\ req[r].netErr \in NetErrors
              /\ req[r].found = NoResponse
              /\ req[r].netResp = NoResponse
              /\ req[r].nMatch = 1
              /\ req[r].nFetch = 1
              /\ req[r].persist = "none"

\* C12 witness: the fetch of /style.css rejected and the caller got the
\* error, although the current generation holds an entry for /style.css
\* that another request wrote after the lookup.
C12_Witness ==
    \E r \in Requests :
        /\ req[r].pc = "done"
        /\ req[r].url = Url(Origin, "/style.css")
        /\ req[r].result = Rejected("AbortError")
        /\ HasEntry(EntriesOf(store, CACHE_NAME), req[r].url)

\* The paths of ClassUrls that match \.(jpg|jpeg|png|gif|webp)$ whatever
\* their case, or end with .css, .js, .woff2 or .ttf.
ClassCacheablePaths ==
    { "/img/shu.png", "/css/awesome.css", "/theme.jpg", "/Photo.JPEG",
      "/anim.GIF", "/bg.webp", "/js/app.js", "/font.woff2", "/font.ttf" }

\* C13: when the lookup of a same-origin request found nothing and the
\* network answered with status 200, a write of the response to the current
\* generation is started exactly when the path matches the image pattern in
\* any case or ends with .css, .js, .woff2 or .ttf, whether the manifest
\* names the URL or not; the fetch listener writes no response of another
\* path, such as /index.html.
C13_WriteIffCacheableClass ==
    /\ \A r \in Requests :
          ( /\ req[r].pc = "done"
            /\ req[r].url.origin = Origin
            /\ req[r].nMatch = 1
            /\ req[r].found = NoResponse
            /\ req[r].netResp.status = 200 )
             => ( req[r].persist # "none"
                     <=> req[r].url.pathname \in ClassCacheablePaths )
    /\ \A r \in Requests :
          req[r].persist = "put"
             => \A i \in DOMAIN store :
                   store[i].id = req[r].handle => store[i].name = CACHE_NAME
    /\ \A e \in AllEntries(store) :
          e[2].src = "net" => e[1].pathname \in ClassCacheablePaths

\* C13 witness: /img/shu.png, which the manifest names and whose add
\* failed at install, missed, was answered with 200 and has been written to
\* the current generation by the fetch listener.
C13_Witness ==
    /\ inst.adds["./img/shu.png"] = "failed"
    /\ req[1].url = Url(Origin, "/img/shu.png")
    /\ req[1].persist = "stored"
    /\ <<req[1].url, req[1].netResp>> \in EntriesOf(store, CACHE_NAME)

\* C14: the caller has the network response from the step at which the
\* write is started, while caches.open and cache.put are still to settle;
\* and when caches.open or cache.put has failed the caller still has that
\* same response, not a rejection.
C14_PersistIsFireAndForget ==
    \A r \in Requests :
        req[r].persist # "none"
           => /\ req[r].pc = "done"
              /\ req[r].netResp = Response(200, "net", r)
              /\ req[r].result = Responded(req[r].netResp)
              /\ req[r].netErr = ""

\* C14 witness: one request has its response while its write is still to
\* open the cache, and another one has kept its response although its
\* cache.put failed.
C14_Witness ==
    \E r1, r2 \in Requests :
        /\ req[r1].persist = "open"
        /\ req[r1].result = Responded(Response(200, "net", r1))
        /\ req[r2].persist = "putFailed"
        /\ req[r2].result = Responded(Response(200, "net", r2))

\* The entries the cache called name holds under url.
EntriesFor(st, name, url) == {e \in EntriesOf(st, name) : e[1] = url}

\* Requests r and q asked for the same cacheable URL, both lookups found
\* nothing and both fetches were answered with status 200.
BothMissed(r, q) ==
    /\ r # q
    /\ req[r].url = req[q].url
    /\ CacheableMiss200(req[r])
    /\ CacheableMiss200(req[q])

\* C15 as claimed: each of two requests that missed on the same URL has the
\* response of its own fetch, and at the step at which the second of their
\* two puts fulfils, the current generation holds one entry for the URL, the
\* response that put wrote.
C15_LastPutWins ==
    [][\A r, q \in Requests :
          BothMissed(r, q)
             => /\ req[r].result = Responded(Response(200, "net", r))
                /\ ( /\ req[r].persist = "put"
                     /\ req'[r].persist = "stored"
                     /\ req[q].persist = "stored" )
                      => EntriesFor(store', CACHE_NAME, req[r].url)
                            = {<<req[r].url, req[r].netResp>>}
      ]_vars

\* C15 amended: each of two requests that missed on the same URL has the
\* response of its own fetch; no cache ever holds two entries for one URL;
\* and at the step at which a put fulfils on a cache that has not been
\* deleted since the write opened it, the current generation holds one
\* entry for the URL, the response that put wrote, whatever an earlier put
\* had stored.
C15_LastLandedPutWins ==
    [][/\ \A r, q \in Requests :
             BothMissed(r, q)
                => /\ req[r].result = Responded(Response(200, "net", r))
                   /\ req[r].nFetch = 1
                   /\ req[r].persist # "none"
       /\ \A r \in Requests :
             ( /\ req[r].persist = "put"
               /\ req'[r].persist = "stored"
               /\ HandleLive(store, req[r].handle) )
                => EntriesFor(store', CACHE_NAME, req[r].url)
                      = {<<req[r].url, req[r].netResp>>}
       /\ \A i \in DOMAIN store' :
             \A e1, e2 \in store'[i].entries : e1[1] = e2[1] => e1 = e2
      ]_vars

\* C15 witness: both requests missed on /theme.jpg, each has its own
\* response, both puts have fulfilled, and the current generation holds the
\* response of the first request alone: its put ran last.
C15_Witness ==
    /\ MaxReq >= 2
    /\ BothMissed(1, 2)
    /\ req[1].url = Url(Origin, "/theme.jpg")
    /\ req[1].persist = "stored"
    /\ req[2].persist = "stored"
    /\ req[1].result = Responded(Response(200, "net", 1))
    /\ req[2].result = Responded(Response(200, "net", 2))
    /\ EntriesFor(store, CACHE_NAME, req[1].url) = {<<req[1].url, req[1].netResp>>}

\* C16: at the step at which a lookup of the fetch listener (the non-audio
\* lookup, or the audio lookup after a failed fetch) finds a response, the
\* response served to the caller is an entry the cache called CACHE_NAME
\* holds for the request.
C16_ServedFromCurrentGeneration ==
    [][\A r \in Requests :
          ( /\ req[r].pc \in {"match", "audioMatch"}
            /\ req'[r].pc = "done"
            /\ req'[r].found # NoResponse )
             => /\ req'[r].result = Responded(req'[r].found)
                /\ <<req[r].url, req'[r].found>> \in EntriesOf(store, CACHE_NAME)
      ]_vars

\* C17 as claimed: in no state have the clients been claimed while cache
\* storage holds a cache whose name is not CACHE_NAME.
C17_ClaimedOnlyAfterDeletes ==
    worker.claimed => \A n \in CacheNames(store) : n = CACHE_NAME

\* C17 amended: the clients are claimed at the step of the activate event,
\* before the names are listed and whatever caches exist; a request is
\* handled only once the activation work has settled; and when that work
\* has fulfilled, the clients are claimed and no cache with another name
\* than CACHE_NAME exists.
C17_ClaimedAtActivateEvent ==
    /\ worker.claimed <=> worker.state \in {"activating", "activated"}
    /\ act.pc \in {"keys", "deletes"} => worker.claimed
    /\ \A r \in Requests :
          req[r].pc # "idle"
             => worker.claimed /\ act.work \in {"fulfilled", "rejected"}
    /\ (worker.state = "activated" /\ act.work = "fulfilled")
          => /\ worker.claimed
             /\ \A n \in CacheNames(store) : n = CACHE_NAME

\* C17 witness: the clients are claimed while the deletion of the older
\* generation is still pending.
C17_Witness ==
    /\ worker.claimed
    /\ act.pc = "deletes"
    /\ OldName \in act.pending
    /\ OldName \in CacheNames(store)

\* C18 as claimed: skipWaiting has been called only in states where the
\* install chain is over, every add attempted and settled.
C18_SkipWaitingAfterAdds ==
    worker.skipWaiting
       => /\ inst.pc = "done"
          /\ \A u \in Files : inst.adds[u] # "pending"

\* C18 amended: skipWaiting is called at the step of the install event,
\* before caches.open has settled and before any add is attempted; the
\* worker takes over only after the install work has fulfilled, every add
\* that was attempted having settled.
C18_SkipWaitingAtInstallEvent ==
    /\ worker.skipWaiting <=> worker.state # "parsed"
    /\ inst.pc \in {"open", "adds"} => worker.skipWaiting
    /\ worker.state \in {"activating", "activated"}
          => /\ worker.skipWaiting
             /\ inst.pc = "done"
             /\ inst.work = "fulfilled"
             /\ \A u \in Files : inst.adds[u] # "pending"

\* C18 witness: skipWaiting has been called, some adds have settled and
\* others are still pending.
C18_Witness ==
    /\ worker.skipWaiting
    /\ worker.state = "installing"
    /\ \E u \in Files : inst.adds[u] = "pending"
    /\ \E u \in Files : inst.adds[u] = "ok"

\* The entries of cache storage that request r's fetch listener wrote.
WrittenBy(st, r) == {e \in AllEntries(st) : e[2].src = "net" /\ e[2].n = r}

\* C19: a same-origin request causes at most one network fetch, one
\* cache.put and one written entry, and a manifest entry at most one
\* cache.add per install; a rejection the caller gets is the error of that
\* one fetch; the failure of an add, of the write's caches.open or of its
\* cache.put rejects neither the install work nor the caller; and what the
\* caller's promise has settled to never changes.
C19_NothingRetried ==
    [][/\ \A r \in Requests :
             /\ req'[r].nFetch <= 1
             /\ req'[r].nPut <= 1
             /\ req'[r].nMatch <= 1
             /\ Cardinality(WrittenBy(store', r)) <= 1
             /\ req'[r].result.kind = "rejected"
                   => /\ req'[r].nFetch = 1
                      /\ req'[r].netErr \in NetErrors
                      /\ req'[r].result = Rejected(req'[r].netErr)
             /\ req'[r].persist \in {"openFailed", "putFailed"}
                   => req'[r].result = Responded(req'[r].netResp)
             /\ req[r].result.kind \in {"response", "rejected"}
                   => req'[r].result = req[r].result
       /\ \A u \in Files :
             /\ inst'.nAdd[u] <= 1
             /\ inst'.adds[u] = "failed" => inst'.work # "rejected"
             /\ inst.adds[u] \in {"ok", "failed"} => inst'.adds[u] = inst.adds[u]
      ]_vars

\* C19 witness: an add failed at install, the fetch of one request failed
\* and the cache.put of another one failed; each was attempted once, and
\* only the first request was rejected.
C19_Witness ==
    \E r1, r2 \in Requests :
        /\ inst.adds["./index.html"] = "failed"
        /\ inst.nAdd["./index.html"] = 1
        /\ inst.work = "fulfilled"
        /\ req[r1].result.kind = "rejected"
        /\ req[r1].nFetch = 1
        /\ req[r2].persist = "putFailed"
        /\ req[r2].nFetch = 1
        /\ req[r2].nPut = 1
        /\ req[r2].result.kind = "response"

=============================================================================
